---- MODULE Spec2Model ----
(***************************************************************************)
(* Model of the MMA8452Q accelerometer driver (src/index.js).              *)
(*                                                                         *)
(* The driver is a single-threaded callback program.  One step of the      *)
(* model is one turn of the event loop: a public call, the completion of   *)
(* an I2C transfer (with the whole synchronous callback chain it runs),    *)
(* one setImmediate callback, or one data-ready interrupt.                 *)
(*                                                                         *)
(* Fixed-point conventions (all exact for the modelled inputs):            *)
(*   accelerations  in units of 1/64 g     (GUnit)                         *)
(*   output rates   in units of 1/100 Hz   (12.5 Hz = 1250)                *)
(*   quotients (average, turbulence, thresholds) as records [n, d].        *)
(*                                                                         *)
(* Specifications: Spec (the driver on its transport), SpecSignal (the     *)
(* signal processor and its setters), SpecShake, SpecRate and SpecDecode   *)
(* (_detectShake, _getClosestOutputRate and the 12-bit decoding applied    *)
(* to enumerated inputs).                                                  *)
(***************************************************************************)
EXTENDS Integers, Sequences, FiniteSets, TLC

\* ------------------------------------------------------------------ bounds
\* external events of one run: public calls, failed transfers, interrupts
MaxEvents == 3
\* samples fed to the signal processor in one run
MaxSamples == 13
\* calls of the synchronous setters in one run of the signal processor
MaxSetterCalls == 1
\* requested rates up to 13 Hz are enumerated one by one
MaxFineRate == 1300

\* ---------------------------------------------------------------- constants
\* the value WHO_AM_I must return (0x2A)
ChipId == 42
GUnit == 64
Unset == 0 - 1
XUP == 0
XDOWN == 1
YUP == 2
YDOWN == 3
ZUP == 4
ZDOWN == 5

orientationName(o) ==
  CASE o = 0 -> "x up"
    [] o = 1 -> "x down"
    [] o = 2 -> "y up"
    [] o = 3 -> "y down"
    [] o = 4 -> "z up"
    [] o = 5 -> "z down"
    [] OTHER -> "undefined"

\* availableOutputRates(), in 1/100 Hz
availableOutputRates == <<80000, 40000, 20000, 10000, 5000, 1250, 625, 156>>

\* ------------------------------------------------------------ bit helpers
RECURSIVE BitAnd(_, _)
BitAnd(a, b) ==
  IF a = 0 \/ b = 0 THEN 0
  ELSE (IF a % 2 = 1 /\ b % 2 = 1 THEN 1 ELSE 0) + 2 * BitAnd(a \div 2, b \div 2)

RECURSIVE BitOr(_, _)
BitOr(a, b) ==
  IF a = 0 THEN b
  ELSE IF b = 0 THEN a
  ELSE (IF a % 2 = 1 \/ b % 2 = 1 THEN 1 ELSE 0) + 2 * BitOr(a \div 2, b \div 2)

\* c & ~(0x01) on a byte
ClearBit0(c) == BitAnd(c, 254)
\* c | 0x01
SetBit0(c) == BitOr(c, 1)
Bit0(c) == c % 2
\* scaleRange >> 2 after clamping to 8
Fsr(scaleRange) == (IF scaleRange > 8 THEN 8 ELSE scaleRange) \div 4

Abs(x) == IF x < 0 THEN 0 - x ELSE x
Max(a, b) == IF a >= b THEN a ELSE b

\* Array.prototype.indexOf over a sequence, 0-based, -1 when absent
IndexOf(seq, v) ==
  IF \E i \in 1..Len(seq) : seq[i] = v
  THEN (CHOOSE i \in 1..Len(seq) : seq[i] = v /\ \A j \in 1..(i - 1) : seq[j] # v) - 1
  ELSE 0 - 1

\* _getClosestOutputRate matching only rates strictly below the request
GetClosestOutputRateStrict(requestedRate) ==
  LET r == IF requestedRate < 0 THEN 0 ELSE requestedRate
      a == availableOutputRates
  IN IF r = 0 THEN 0
     ELSE IF \E i \in 1..Len(a) : a[i] < r
          THEN a[CHOOSE i \in 1..Len(a) : a[i] < r /\ \A j \in 1..(i - 1) : a[j] >= r]
          ELSE a[Len(a)]

\* _getClosestOutputRate: the value handed to the callback
GetClosestOutputRate(requestedRate) ==
  LET r == IF requestedRate < 0 THEN 0 ELSE requestedRate
      a == availableOutputRates
  IN IF r = 0 THEN 0
     ELSE IF \E i \in 1..Len(a) : a[i] <= r
          THEN a[CHOOSE i \in 1..Len(a) : a[i] <= r /\ \A j \in 1..(i - 1) : a[j] > r]
          ELSE a[Len(a)]

\* ------------------------------------------------------------- quotients
Rat(n, d) == [n |-> n, d |-> d]
RatLess(a, b) == a.n * b.d < b.n * a.d
Zero3 == <<0, 0, 0>>

\* ------------------------------------------------------------------ state
VARIABLES
  \* device registers (the chip behind the I2C transport)
  ctrl1, ctrl4, xyzCfg, whoAmI,
  \* Accelerometer fields
  outputRate, scaleRange, dataInterrupts,
  shakeThreshold2, bufferLength, bufferIndex, sampleBuffer,
  orientationSuppression, totalSamples, currentTurbulence,
  averageAcceleration, currentOrientation,
  \* sync-queue: waiting operations and whether nothing is running
  queue, idle,
  \* event loop: operations waiting for a transport callback, the transport's
  \* FIFO of outstanding transfers, the setImmediate queue, the once('low')
  \* handlers on the interrupt pin, the 'data'/'sample' listeners
  tasks, bus, immq, handlers, listeners,
  \* observations: events emitted by the last step, totals, exceptions thrown
  emitted, readyCount, errorCount, orientLog, thrown,
  \* history: operations placed, the operation whose transport call completed
  \* last, the last _changeRegister completion, the failed transfers so far
  \* (callback, callback of the operation), whether a queued public operation
  \* was called directly
  nOps, lastEffectSeq, done, failed, direct,
  \* the function the last step called with its argument and result
  lastCall,
  \* bounds bookkeeping: the external events so far
  events

\* no function noted for the step
NoCall == [name |-> "none", arg |-> 0, result |-> 0]

vars == <<ctrl1, ctrl4, xyzCfg, whoAmI, outputRate, scaleRange, dataInterrupts,
          shakeThreshold2, bufferLength, bufferIndex, sampleBuffer,
          orientationSuppression, totalSamples, currentTurbulence,
          averageAcceleration, currentOrientation, queue, idle, tasks, bus,
          immq, handlers, listeners, emitted, readyCount, errorCount,
          orientLog, thrown, nOps, lastEffectSeq, done, failed, direct,
          lastCall, events>>

\* The whole program state as one record, so that a JavaScript function that
\* runs synchronously is an operator from state to state.
State ==
  [ctrl1 |-> ctrl1, ctrl4 |-> ctrl4, xyzCfg |-> xyzCfg, whoAmI |-> whoAmI,
   outputRate |-> outputRate, scaleRange |-> scaleRange,
   dataInterrupts |-> dataInterrupts, shakeThreshold2 |-> shakeThreshold2,
   bufferLength |-> bufferLength, bufferIndex |-> bufferIndex,
   sampleBuffer |-> sampleBuffer,
   orientationSuppression |-> orientationSuppression,
   totalSamples |-> totalSamples, currentTurbulence |-> currentTurbulence,
   averageAcceleration |-> averageAcceleration,
   currentOrientation |-> currentOrientation, queue |-> queue, idle |-> idle,
   tasks |-> tasks, bus |-> bus, immq |-> immq, handlers |-> handlers,
   listeners |-> listeners, emitted |-> <<>>, readyCount |-> readyCount,
   errorCount |-> errorCount, orientLog |-> orientLog, thrown |-> thrown,
   nOps |-> nOps, lastEffectSeq |-> lastEffectSeq, done |-> done,
   failed |-> failed, direct |-> direct, lastCall |-> NoCall,
   events |-> events]

Becomes(s) ==
  /\ ctrl1' = s.ctrl1 /\ ctrl4' = s.ctrl4 /\ xyzCfg' = s.xyzCfg
  /\ whoAmI' = s.whoAmI
  /\ outputRate' = s.outputRate /\ scaleRange' = s.scaleRange
  /\ dataInterrupts' = s.dataInterrupts
  /\ shakeThreshold2' = s.shakeThreshold2
  /\ bufferLength' = s.bufferLength /\ bufferIndex' = s.bufferIndex
  /\ sampleBuffer' = s.sampleBuffer
  /\ orientationSuppression' = s.orientationSuppression
  /\ totalSamples' = s.totalSamples
  /\ currentTurbulence' = s.currentTurbulence
  /\ averageAcceleration' = s.averageAcceleration
  /\ currentOrientation' = s.currentOrientation
  /\ queue' = s.queue /\ idle' = s.idle
  /\ tasks' = s.tasks /\ bus' = s.bus /\ immq' = s.immq
  /\ handlers' = s.handlers /\ listeners' = s.listeners
  /\ emitted' = s.emitted /\ readyCount' = s.readyCount
  /\ errorCount' = s.errorCount /\ orientLog' = s.orientLog
  /\ thrown' = s.thrown
  /\ nOps' = s.nOps /\ lastEffectSeq' = s.lastEffectSeq /\ done' = s.done
  /\ failed' = s.failed /\ direct' = s.direct
  /\ lastCall' = s.lastCall
  /\ events' = s.events

\* the step called function name with argument arg, which returned result
Noted(s, name, arg, result) ==
  [s EXCEPT !.lastCall = [name |-> name, arg |-> arg, result |-> result]]

\* ----------------------------------------------------------- event surface
\* self.emit(event, ...): delivered synchronously to the listeners
Emit(s, ev) ==
  LET s1 == [s EXCEPT !.emitted = Append(@, ev)]
  IN CASE ev[1] = "ready" -> [s1 EXCEPT !.readyCount = @ + 1]
       [] ev[1] = "error" -> [s1 EXCEPT !.errorCount = @ + 1]
       [] ev[1] = "orientation" -> [s1 EXCEPT !.orientLog = Append(@, ev[2])]
       [] OTHER -> s1

\* setImmediate(fn)
SetImmediate(s, fn) == [s EXCEPT !.immq = Append(@, fn)]

\* _failProcedure(err, callback) up to the call of callback: the error event
\* is deferred with setImmediate
FailProcedure(s) == SetImmediate(s, "emitErr")

\* ------------------------------------------------------- signal processing
\* _detectShake firing only above the threshold
DetectShakeStrict(s, xyz) ==
  LET mag2 == xyz[1] * xyz[1] + xyz[2] * xyz[2] + xyz[3] * xyz[3]
  IN IF RatLess(s.shakeThreshold2, Rat(mag2, GUnit * GUnit))
     THEN Emit(s, <<"shake", mag2>>)
     ELSE s

\* _detectShake: mag2 >= shakeThreshold2, mag2 in GUnit^2; the event carries
\* Math.sqrt(mag2), recorded here by mag2 itself
DetectShake(s, xyz) ==
  LET mag2 == xyz[1] * xyz[1] + xyz[2] * xyz[2] + xyz[3] * xyz[3]
  IN IF ~RatLess(Rat(mag2, GUnit * GUnit), s.shakeThreshold2)
     THEN Emit(s, <<"shake", mag2>>)
     ELSE s

RECURSIVE SumAxis(_, _, _)
SumAxis(buf, i, axis) ==
  IF i = 0 THEN 0 ELSE buf[i][axis] + SumAxis(buf, i - 1, axis)

RECURSIVE SumDelta(_, _)
\* sum over i = 1 .. bufferLength-1 (0-based) of the three absolute deltas
SumDelta(buf, i) ==
  IF i <= 1 THEN 0
  ELSE Abs(buf[i][1] - buf[i - 1][1]) + Abs(buf[i][2] - buf[i - 1][2])
       + Abs(buf[i][3] - buf[i - 1][3]) + SumDelta(buf, i - 1)

\* the switch(maxDimension) of _detectOrientation, on the three sums (the
\* averages are the sums over the same positive bufferLength)
Classify(avg) ==
  LET maxDimension == Max(Abs(avg[1]), Max(Abs(avg[2]), Abs(avg[3])))
  IN IF maxDimension = avg[1] THEN XUP
     ELSE IF maxDimension = 0 - avg[1] THEN XDOWN
     ELSE IF maxDimension = avg[2] THEN YUP
     ELSE IF maxDimension = 0 - avg[2] THEN YDOWN
     ELSE IF maxDimension = avg[3] THEN ZUP
     ELSE ZDOWN

\* EmitChange without the turbulence gate
EmitChangeUngated(s, newOrientation) ==
  IF newOrientation # s.currentOrientation
  THEN Emit([s EXCEPT !.currentOrientation = newOrientation],
            <<"orientation", newOrientation, orientationName(newOrientation)>>)
  ELSE s

\* the first emit of _detectOrientation (lines 249-252)
EmitChange(s, newOrientation) ==
  IF newOrientation # s.currentOrientation
     /\ RatLess(s.currentTurbulence, s.orientationSuppression)
  THEN Emit([s EXCEPT !.currentOrientation = newOrientation],
            <<"orientation", newOrientation, orientationName(newOrientation)>>)
  ELSE s

\* EmitFirst one sample early
EmitFirstEarly(s, newOrientation) ==
  IF s.totalSamples = s.bufferLength - 1
  THEN Emit(s, <<"orientation", s.currentOrientation,
                 orientationName(newOrientation)>>)
  ELSE s

\* the second, forced emit of _detectOrientation (lines 256-258)
EmitFirst(s, newOrientation) ==
  IF s.totalSamples = s.bufferLength
  THEN Emit(s, <<"orientation", s.currentOrientation,
                 orientationName(newOrientation)>>)
  ELSE s

DetectOrientation(s, xyz) ==
  LET L == s.bufferLength
      buf == [s.sampleBuffer EXCEPT ![s.bufferIndex + 1] = xyz]
      sums == <<SumAxis(buf, L, 1), SumAxis(buf, L, 2), SumAxis(buf, L, 3)>>
      s1 == [s EXCEPT !.totalSamples = @ + 1,
                      !.sampleBuffer = buf,
                      !.bufferIndex = (@ + 1) % L,
                      !.averageAcceleration =
                         <<Rat(sums[1], L), Rat(sums[2], L), Rat(sums[3], L)>>,
                      !.currentTurbulence = Rat(SumDelta(buf, L), (L - 1) * 3)]
      newOrientation == Classify(sums)
  IN EmitFirst(EmitChange(s1, newOrientation), newOrientation)

\* the success branch of the _dataReady callback (lines 271-277)
EmitSample(s, xyz) ==
  DetectOrientation(
    DetectShake(Emit(Emit(s, <<"data", xyz>>), <<"sample", xyz>>), xyz), xyz)

\* ------------------------------------------------------------ sync-queue
\* An operation is [kind, arg, cb, seq]: kind names the queued function, arg
\* its argument, cb the callback it was given, seq the order of placement.
\*   kind "one"    the identity check placed by the constructor
\*        "scale"  _unsafeSetScaleRange(arg, cb)
\*        "rate"   _unsafeSetOutputRate(arg, cb)
\*        "enable" queueEnable of enableDataInterrupts(arg, cb)
\*        "accel"  readAccel of getAcceleration(cb)
\*   cb   "none"   no callback given
\*        "user"   a callback of the caller's with no effect
\*        "next"   self.queue.next, as passed by the listener handlers
\*        "init1"  the callback of the constructor's setScaleRange
\*        "init2"  the callback of the constructor's setOutputRate
\*        "irq"    the callback of _dataReady
\* bits 1, 2, 6 and 7 of a CTRL_REG1 value (0b11000110): those that neither
\* the mode transitions nor the rate edit mean to change
OtherBits(c) == BitAnd(c, 198)

\* before notes those bits as they were when a register change began
Op(kind, arg, cb) ==
  [kind |-> kind, arg |-> arg, cb |-> cb, seq |-> 0, before |-> 0]

\* a transport call is outstanding for operation op; pc names the callback
\* that its completion runs, c the register value that callback closes over
Issue(s, op, pc, c) ==
  [s EXCEPT !.tasks = [x \in (DOMAIN @) \cup {op.seq} |->
                         IF x = op.seq THEN [op |-> op, pc |-> pc, c |-> c]
                         ELSE @[x]],
            !.bus = Append(@, op.seq)]

RECURSIVE QueueNext(_)
RECURSIVE StartOp(_, _)

\* _modeStandby: read CTRL_REG1 first
ModeStandby(s, op) == Issue(s, op, "standbyRead", 0)

\* _changeRegister(change, callback)
ChangeRegister(s, op) == ModeStandby(s, [op EXCEPT !.before = OtherBits(s.ctrl1)])

\* queueEnable (lines 464-494) up to its first transport call
QueueEnable(s, op) ==
  IF s.dataInterrupts = (IF op.arg THEN "true" ELSE "false")
  THEN LET s1 == SetImmediate(s, "next")
       IN IF op.cb = "next" THEN QueueNext(s1) ELSE s1
  ELSE ChangeRegister(
         [s EXCEPT !.dataInterrupts = IF op.arg THEN "true" ELSE "false"], op)

\* the queued function of an operation, up to its first transport call
StartOp(s, op) ==
  CASE op.kind = "one" -> Issue(s, op, "IDRead", 0)
    [] op.kind = "scale" -> ChangeRegister(s, op)
    [] op.kind = "rate" -> ChangeRegister(s, op)
    [] op.kind = "enable" -> QueueEnable(s, op)
    [] op.kind = "accel" -> Issue(s, op, "readAccel", 0)

\* queue.next(): release the queue and run the next waiting operation
QueueNext(s) ==
  IF s.queue = <<>> THEN [s EXCEPT !.idle = TRUE]
  ELSE StartOp([s EXCEPT !.queue = Tail(@), !.idle = FALSE], Head(s.queue))

\* queue.place(fn): run fn at once when nothing is running, else append it
QueuePlace(s, o) ==
  LET op == [o EXCEPT !.seq = s.nOps]
      s1 == [s EXCEPT !.nOps = @ + 1]
  IN IF s1.idle THEN StartOp([s1 EXCEPT !.idle = FALSE], op)
     ELSE [s1 EXCEPT !.queue = Append(@, op)]

\* ------------------------------------------------------ public operations
SetScaleRange(s, g, cb) == QueuePlace(s, Op("scale", g, cb))
SetOutputRate(s, hz, cb) == QueuePlace(s, Op("rate", hz, cb))
EnableDataInterrupts(s, enable, cb) == QueuePlace(s, Op("enable", enable, cb))
GetAcceleration(s, cb) == QueuePlace(s, Op("accel", 0, cb))

\* DataReady registered with on('low') instead of once('low')
DataReadyOn(s) == GetAcceleration(s, "irq")

\* _dataReady: one firing of one once('low') handler
DataReady(s) == GetAcceleration([s EXCEPT !.handlers = @ - 1], "irq")

\* -------------------------------------------------------------- callbacks
\* the callbacks given to setScaleRange / setOutputRate / enableDataInterrupts
Callback(s, cb, err) ==
  CASE cb = "next" -> QueueNext(s)
    [] cb = "init1" ->
         IF err THEN FailProcedure(s)
         ELSE SetOutputRate(s, s.outputRate, "init2")
    [] cb = "init2" ->
         IF err THEN FailProcedure(s)
         ELSE SetImmediate(s, "emitReady")
    [] OTHER -> s

\* scaleSet / rateSet / intSet: the completion callback of _changeRegister.
\* stage names the step that called it: "standby", "edit" or "active".
\* The history notes how many times the callback of this operation has run,
\* and whether _dataInterrupts agrees with CTRL_REG4 bit 0 as it runs.
ChangeDone(s, op, err, stage) ==
  LET s1 == [s EXCEPT !.done = [seq |-> op.seq, kind |-> op.kind,
                                 stage |-> stage, err |-> err,
                                 active |-> Bit0(s.ctrl1) = 1,
                                 count |-> IF @.kind # "none" /\ @.seq = op.seq
                                           THEN @.count + 1 ELSE 1,
                                 mirror |-> (s.dataInterrupts = "true")
                                              = (Bit0(s.ctrl4) = 1)]]
  IN SetImmediate(Callback(s1, op.cb, err), "next")

\* _modeActive up to its transport call
ModeActive(s, op) == Issue(s, op, "activeRead", 0)

\* setActive(err) of _changeRegister (lines 154-162)
ChangeComplete(s, op, err) ==
  IF err THEN ChangeDone(FailProcedure(s), op, TRUE, "edit")
  ELSE ModeActive(s, op)

\* the edit functions: change / setRegisters / change, up to a transport call
Change(s, op) ==
  CASE op.kind = "scale" -> Issue(s, op, "wroteReg", Fsr(op.arg))
    [] op.kind = "rate" ->
         LET closest == GetClosestOutputRate(op.arg)
             bin == IndexOf(availableOutputRates, closest)
             s1 == [s EXCEPT !.outputRate = closest]
         IN IF bin # 0 - 1 THEN Issue(s1, op, "readComplete", bin)
            ELSE ChangeComplete(s1, op, TRUE)
    [] op.kind = "enable" -> Issue(s, op, "reg4Read", 0)

\* inStandby(err) without the return of its error branch
InStandbyNoReturn(s, op, err) ==
  IF err THEN Change(ChangeDone(FailProcedure(s), op, TRUE, "standby"), op)
  ELSE Change(s, op)

\* inStandby(err) of _changeRegister (lines 148-164)
InStandby(s, op, err) ==
  IF err THEN ChangeDone(FailProcedure(s), op, TRUE, "standby")
  ELSE Change(s, op)

\* IDRead (lines 79-120)
IDRead(s, op, err, c) ==
  IF err THEN FailProcedure(s)
  ELSE IF c # ChipId THEN FailProcedure(s)
  ELSE LET s1 == SetScaleRange(s, s.scaleRange, "init1")
       IN [s1 EXCEPT !.handlers = @ + 1]

\* the decoded value with the sign test off by one
GCountLate(hi, lo) ==
  LET g == (hi * 256 + lo) \div 16
  IN IF hi > 128 THEN 0 - (1 + 4095 - g) ELSE g

\* the decoded value of one axis: (hi << 8 | lo) >> 4, made negative when
\* hi > 0x7F
GCount(hi, lo) ==
  LET g == (hi * 256 + lo) \div 16
  IN IF hi > 127 THEN 0 - (1 + 4095 - g) ELSE g

\* gCount / ((1 << 12) / (2 * scaleRange)) in units of 1/GUnit g; the raw
\* samples of the model are those for which the quotient is exact
Scaled(gCount, range) == (gCount * 2 * range * GUnit) \div 4096

Decode(raw, range) ==
  <<Scaled(GCount(raw[1], raw[2]), range), Scaled(GCount(raw[3], raw[4]), range),
    Scaled(GCount(raw[5], raw[6]), range)>>

\* the callback of _dataReady (lines 264-280)
DataReadyCallback(s, err, xyz) ==
  LET s1 == IF err THEN Emit(s, <<"error">>) ELSE EmitSample(s, xyz)
  IN [s1 EXCEPT !.handlers = @ + 1]

\* the callback of the 6-byte read of getAcceleration (lines 502-522):
\* throw err on a failed read; callback(null, out) is not guarded, so without
\* a callback it throws a TypeError ("other") before queue.next is scheduled
ReadAccel(s, op, err, raw) ==
  IF err THEN [s EXCEPT !.thrown = @ \cup {<<"getAcceleration", op.cb>>}]
  ELSE IF op.cb = "none" THEN [s EXCEPT !.thrown = @ \cup {<<"other", op.cb>>}]
  ELSE LET out == Decode(raw, s.scaleRange)
           s1 == IF op.cb = "irq" THEN DataReadyCallback(s, FALSE, out) ELSE s
       IN SetImmediate(s1, "next")

\* ------------------------------------------------------- transport steps
\* the callback that the completion of operation task.op's transport call
\* runs; err is the transport's outcome, raw the six data bytes of a read
Completion(s, task, err, raw) ==
  LET op == task.op
      c == task.c
  IN CASE task.pc = "IDRead" -> IDRead(s, op, err, s.whoAmI)
       \* _modeStandby (lines 350-357)
       [] task.pc = "standbyRead" ->
            IF err THEN InStandby(FailProcedure(s), op, TRUE)
            ELSE Issue(s, op, "standbyWrite", ClearBit0(s.ctrl1))
       [] task.pc = "standbyWrite" ->
            IF err THEN InStandby(s, op, TRUE)
            ELSE InStandby([s EXCEPT !.ctrl1 = c], op, FALSE)
       \* wroteReg (lines 387-390)
       [] task.pc = "wroteReg" ->
            LET s1 == IF err THEN s ELSE [s EXCEPT !.xyzCfg = c]
            IN ChangeComplete([s1 EXCEPT !.scaleRange = op.arg], op, err)
       \* readComplete (lines 420-431): c is bin
       [] task.pc = "readComplete" ->
            IF err THEN ChangeComplete(s, op, TRUE)
            ELSE LET regVal == BitAnd(s.ctrl1, 199)
                 IN Issue(s, op, "rateWrite",
                          IF c # 0 THEN BitOr(regVal, c * 8) ELSE regVal)
       [] task.pc = "rateWrite" ->
            ChangeComplete(IF err THEN s ELSE [s EXCEPT !.ctrl1 = c], op, err)
       \* change of enableDataInterrupts (lines 475-486)
       [] task.pc = "reg4Read" ->
            IF err THEN ChangeComplete(s, op, TRUE)
            ELSE Issue(s, op, "reg4Write",
                       IF op.arg THEN SetBit0(s.ctrl4) ELSE ClearBit0(s.ctrl4))
       [] task.pc = "reg4Write" ->
            ChangeComplete(IF err THEN s ELSE [s EXCEPT !.ctrl4 = c], op, err)
       \* _modeActive (lines 336-343): the error branch calls the undefined
       \* global _failProcedure, which throws a ReferenceError
       [] task.pc = "activeRead" ->
            IF err THEN [s EXCEPT !.thrown = @ \cup {<<"_modeActive", op.cb>>}]
            ELSE Issue(s, op, "activeWrite", SetBit0(s.ctrl1))
       [] task.pc = "activeWrite" ->
            ChangeDone(IF err THEN s ELSE [s EXCEPT !.ctrl1 = c], op, err,
                       "active")
       [] task.pc = "readAccel" -> ReadAccel(s, op, err, raw)

\* the raw data registers OUT_X_MSB.. the device may present
RawSamples == {<<0, 0, 0, 0, 64, 0>>}

\* the transfers that write a configuration register: XYZ_DATA_CFG (line
\* 384), the rate bits of CTRL_REG1 (line 430), CTRL_REG4 (line 484)
EditWrites == {"wroteReg", "rateWrite", "reg4Write"}

\* the transport completes its oldest outstanding transfer
Transfer(err, raw) ==
  /\ bus # <<>>
  /\ err => events < MaxEvents
  /\ LET t == Head(bus)
         s == [State EXCEPT !.bus = Tail(@),
                            !.tasks = [x \in (DOMAIN @) \ {t} |-> @[x]],
                            !.lastEffectSeq = t,
                            !.events = IF err THEN @ + 1 ELSE @,
                            !.failed = IF err THEN @ \cup {<<tasks[t].pc, tasks[t].op.cb>>}
                                      ELSE @]
     IN Becomes(Completion(s, tasks[t], err, raw))

TransferOk == \E raw \in RawSamples : Transfer(FALSE, raw)
TransferFail == \E raw \in RawSamples : Transfer(TRUE, raw)

\* -------------------------------------------------------- setImmediate
RunImmediate(s, fn) ==
  CASE fn = "next" -> QueueNext(s)
    [] fn = "emitReady" -> QueueNext(Emit(s, <<"ready">>))
    [] fn = "emitErr" -> Emit(s, <<"error">>)

Immediate ==
  /\ immq # <<>>
  /\ Becomes(RunImmediate([State EXCEPT !.immq = Tail(@)], Head(immq)))

\* ---------------------------------------------------------- public calls
RateInputs == {0, 10000}
ScaleInputs == {4, 16}

Called(s) == [s EXCEPT !.events = @ + 1]
Direct(s) == [Called(s) EXCEPT !.direct = TRUE]

CallSetOutputRate ==
  /\ events < MaxEvents
  /\ \E hz \in RateInputs : Becomes(SetOutputRate(Direct(State), hz, "none"))

CallSetScaleRange ==
  /\ events < MaxEvents
  /\ \E g \in ScaleInputs : Becomes(SetScaleRange(Direct(State), g, "none"))

CallEnableDataInterrupts ==
  /\ events < MaxEvents
  /\ \E b \in BOOLEAN : Becomes(EnableDataInterrupts(Direct(State), b, "none"))

\* getAcceleration() and getAcceleration(callback)
AccelCallbacks == {"none", "user"}

CallGetAcceleration ==
  /\ events < MaxEvents
  /\ \E cb \in AccelCallbacks : Becomes(GetAcceleration(Direct(State), cb))

\* on('data' | 'sample', fn): 'newListener' is emitted, then fn is added
Subscribe ==
  /\ events < MaxEvents
  /\ Becomes(EnableDataInterrupts(
               [Called(State) EXCEPT !.listeners = @ + 1], TRUE, "next"))

\* removeListener('data' | 'sample', fn): fn is removed, then
\* 'removeListener' is emitted
Unsubscribe ==
  /\ events < MaxEvents
  /\ listeners > 0
  /\ Becomes(EnableDataInterrupts(
               [Called(State) EXCEPT !.listeners = @ - 1], FALSE, "next"))

\* the interrupt pin goes low, which the chip does while its data-ready
\* interrupt is enabled (CTRL_REG4 bit 0): every once('low') handler runs
RECURSIVE FireHandlers(_, _)
FireHandlers(s, n) == IF n = 0 THEN s ELSE FireHandlers(DataReady(s), n - 1)

Interrupt ==
  /\ handlers > 0
  /\ Bit0(ctrl4) = 1
  /\ events < MaxEvents
  /\ Becomes(FireHandlers(Called(State), handlers))

\* ------------------------------------------------------------ construction
DefaultBufferLength == 13

Blank(id) ==
  [ctrl1 |-> 0, ctrl4 |-> 0, xyzCfg |-> 0, whoAmI |-> id,
   outputRate |-> 1250, scaleRange |-> 2, dataInterrupts |-> "undefined",
   shakeThreshold2 |-> Rat(289, 100),
   bufferLength |-> DefaultBufferLength, bufferIndex |-> 0,
   sampleBuffer |-> [i \in 1..DefaultBufferLength |-> Zero3],
   orientationSuppression |-> Rat(GUnit, 8),
   totalSamples |-> 0, currentTurbulence |-> Rat(0, 0),
   averageAcceleration |-> <<Rat(0, 1), Rat(0, 1), Rat(0, 1)>>,
   currentOrientation |-> Unset, queue |-> <<>>, idle |-> TRUE,
   tasks |-> <<>>, bus |-> <<>>, immq |-> <<>>, handlers |-> 0,
   listeners |-> 0, emitted |-> <<>>, readyCount |-> 0, errorCount |-> 0,
   orientLog |-> <<>>, thrown |-> {}, nOps |-> 0, lastEffectSeq |-> 0,
   done |-> [seq |-> 0, kind |-> "none", stage |-> "none", err |-> FALSE,
             active |-> FALSE, count |-> 0, mirror |-> TRUE],
   failed |-> {}, direct |-> FALSE, lastCall |-> NoCall,
   events |-> 0]

\* function Accelerometer (lines 26-140): place the identity check, register
\* the listener handlers, then the trailing self.queue.next()
Constructor(s) == QueueNext(QueuePlace(s, Op("one", 0, "none")))

\* WHO_AM_I of the chip on the bus: the MMA8452Q, or another chip
ChipIds == {ChipId, 26}

Is(s) ==
  /\ ctrl1 = s.ctrl1 /\ ctrl4 = s.ctrl4 /\ xyzCfg = s.xyzCfg
  /\ whoAmI = s.whoAmI
  /\ outputRate = s.outputRate /\ scaleRange = s.scaleRange
  /\ dataInterrupts = s.dataInterrupts
  /\ shakeThreshold2 = s.shakeThreshold2
  /\ bufferLength = s.bufferLength /\ bufferIndex = s.bufferIndex
  /\ sampleBuffer = s.sampleBuffer
  /\ orientationSuppression = s.orientationSuppression
  /\ totalSamples = s.totalSamples
  /\ currentTurbulence = s.currentTurbulence
  /\ averageAcceleration = s.averageAcceleration
  /\ currentOrientation = s.currentOrientation
  /\ queue = s.queue /\ idle = s.idle
  /\ tasks = s.tasks /\ bus = s.bus /\ immq = s.immq
  /\ handlers = s.handlers /\ listeners = s.listeners
  /\ emitted = s.emitted /\ readyCount = s.readyCount
  /\ errorCount = s.errorCount /\ orientLog = s.orientLog
  /\ thrown = s.thrown
  /\ nOps = s.nOps /\ lastEffectSeq = s.lastEffectSeq /\ done = s.done
  /\ failed = s.failed /\ direct = s.direct
  /\ lastCall = s.lastCall
  /\ events = s.events

Init == \E id \in ChipIds : Is(Constructor(Blank(id)))

Next ==
  \/ TransferOk
  \/ TransferFail
  \/ Immediate
  \/ CallSetOutputRate
  \/ CallSetScaleRange
  \/ CallEnableDataInterrupts
  \/ CallGetAcceleration
  \/ Subscribe
  \/ Unsubscribe
  \/ Interrupt

Spec == Init /\ [][Next]_vars

\* ------------------------------------------------- signal processor alone
\* The synchronous setters, and the sample path applied to decoded samples:
\* a second specification for the claims about the signal processor.

\* setShakeThreshold(threshold), threshold = t.n / t.d g
SetShakeThreshold(s, t) ==
  IF t.n <= 0 THEN FailProcedure(s)
  ELSE [s EXCEPT !.shakeThreshold2 = Rat(t.n * t.n, t.d * t.d)]

\* setOrientationSuppression(threshold), threshold = t.n / t.d g;
\* minimumThreshold is 0.0001
SetOrientationSuppression(s, t) ==
  IF t.n * 10000 <= t.d THEN FailProcedure(s)
  ELSE [s EXCEPT !.orientationSuppression = Rat(t.n * GUnit, t.d)]

\* setSampleBufferLength with the length check off by one
SetSampleBufferLengthLax(s, length) ==
  IF length < 1 THEN FailProcedure(s)
  ELSE [s EXCEPT !.bufferLength = length,
                 !.bufferIndex = 0,
                 !.sampleBuffer = [i \in 1..length |-> Zero3]]

\* setSampleBufferLength(length)
SetSampleBufferLength(s, length) ==
  IF length < 2 THEN FailProcedure(s)
  ELSE [s EXCEPT !.bufferLength = length,
                 !.bufferIndex = 0,
                 !.sampleBuffer = [i \in 1..length |-> Zero3]]

\* [2, 0, 0] g and [0, 0, -1] g
ConstSample == <<2 * GUnit, 0, 0>>
SampleInputs == {ConstSample, <<0, 0, 0 - GUnit>>}
LengthInputs == {1, 2, 3}
SuppressionInputs == {Rat(1, 10000), Rat(100, 1)}
ShakeInputs == {Rat(0, 1), Rat(2, 1)}

FeedSample ==
  /\ totalSamples < MaxSamples
  /\ \E xyz \in SampleInputs : Becomes(EmitSample(State, xyz))

CallSetSampleBufferLength ==
  /\ events < MaxSetterCalls
  /\ \E n \in LengthInputs :
       Becomes(Noted(SetSampleBufferLength(Called(State), n),
                     "setSampleBufferLength", n, 0))

CallSetOrientationSuppression ==
  /\ events < MaxSetterCalls
  /\ \E t \in SuppressionInputs :
       Becomes(Noted(SetOrientationSuppression(Called(State), t),
                     "setOrientationSuppression", t, 0))

CallSetShakeThreshold ==
  /\ events < MaxSetterCalls
  /\ \E t \in ShakeInputs :
       Becomes(Noted(SetShakeThreshold(Called(State), t),
                     "setShakeThreshold", t, 0))

NextSignal ==
  \/ FeedSample
  \/ CallSetSampleBufferLength
  \/ CallSetOrientationSuppression
  \/ CallSetShakeThreshold
  \/ Immediate

InitSignal == Is(Constructor(Blank(ChipId)))

SpecSignal == InitSignal /\ [][NextSignal]_vars

\* ----------------------------------------------------- shake detection
\* _detectShake applied to decoded samples, under the default threshold and
\* the thresholds setShakeThreshold stores.  Axis values in 1/64 g: 108 and
\* 109 enclose the default threshold 1.7 g, 127 and 128 enclose 2 g.
ShakeAxis == {0 - 128, 0, 108, 109, 127, 128}
ShakeSamples == {<<x, y, z>> : x \in ShakeAxis, y \in ShakeAxis, z \in ShakeAxis}

ApplyDetectShake ==
  \E xyz \in ShakeSamples :
    Becomes(Noted(DetectShake(State, xyz), "_detectShake", xyz, 0))

NextShake ==
  \/ ApplyDetectShake
  \/ CallSetShakeThreshold
  \/ Immediate

SpecShake == InitSignal /\ [][NextShake]_vars

\* -------------------------------------------------------- sample decoding
\* the decoding of one axis applied to every pair of register bytes
Byte == 0..255

\* one application per run
DecodeAxis ==
  /\ lastCall = NoCall
  /\ \E hi \in Byte, lo \in Byte :
       Becomes(Noted(State, "gCount", <<hi, lo>>, GCount(hi, lo)))

NextDecode == DecodeAxis

SpecDecode == InitSignal /\ [][NextDecode]_vars

\* ------------------------------------------------------ rate selection
\* _getClosestOutputRate applied to requested rates, in 1/100 Hz: every
\* request from -MaxFineRate to MaxFineRate, and the neighbourhood of every
\* supported rate
RateRequests ==
  ((0 - MaxFineRate)..MaxFineRate)
    \cup {availableOutputRates[i] + d : i \in 1..Len(availableOutputRates),
                                        d \in {0 - 1, 0, 1}}

\* one application per run
SelectRate ==
  /\ lastCall = NoCall
  /\ \E r \in RateRequests :
       Becomes(Noted(State, "_getClosestOutputRate", r, GetClosestOutputRate(r)))

NextRate == SelectRate

SpecRate == InitSignal /\ [][NextRate]_vars

\* ================================================================ claims
Quiescent == DOMAIN tasks = {} /\ immq = <<>>
FirstCalls == {"IDRead", "standbyRead", "readAccel"}
InitFailures == {f \in failed : f[1] = "IDRead" \/ f[2] \in {"init1", "init2"}}
OrientationEvents(em) ==
  Cardinality({i \in 1..Len(em) : em[i][1] = "orientation"})
SampleEmitted(em) == em # <<>> /\ em[1][1] = "data"
Turbulent == ~RatLess(currentTurbulence, orientationSuppression)
IrqAcquisitions ==
  Cardinality({t \in DOMAIN tasks : tasks[t].op.cb = "irq"})
  + Cardinality({i \in 1..Len(queue) : queue[i].cb = "irq"})

\* C1: while a queued operation is in the middle of its sequence of transport
\* calls, no other queued operation has a transport call outstanding (stated
\* for the runs in which no transfer has failed).
C1_NoInterleaving ==
  failed = {} =>
    \A t \in DOMAIN tasks : tasks[t].pc \notin FirstCalls => DOMAIN tasks = {t}

\* C2: operations perform their device side effects in the order they were
\* placed: no operation placed before the one whose transport call completed
\* last still has a transport call to be completed (stated for the runs in
\* which no transfer has failed).
C2_PlacementOrder == failed = {} => \A t \in DOMAIN tasks : t >= lastEffectSeq

\* C3: the queue is never permanently stalled: when no transport call is
\* outstanding and no setImmediate callback is pending, no operation is left
\* waiting in the queue.
C3_NeverStalled == Quiescent => queue = <<>>

\* C4: when the completion callback of _changeRegister runs after a Standby
\* transition that succeeded (the edit failed, or the Active transition
\* delivered no error), CTRL_REG1 bit 0 is set.
C4_ActiveRestored ==
  (done.stage = "edit" \/ (done.stage = "active" /\ ~done.err)) => done.active

\* C5: on a fault-free transport, after only subscribe / unsubscribe calls and
\* once the queue has drained, CTRL_REG4 bit 0 is set iff a 'data' / 'sample'
\* listener is registered.
C5_InterruptsFollowListeners ==
  (Quiescent /\ queue = <<>> /\ failed = {} /\ ~direct)
    => (Bit0(ctrl4) = 1 <=> listeners > 0)

\* C6: at most one once('low') handler is registered, at most one
\* interrupt-triggered acquisition is queued or executing, and never both.
C6_OneShot == handlers + IrqAcquisitions <= 1

\* C6 witness: an interrupt-triggered read has completed, emitted its sample
\* and re-registered the handler.
C6_Witness == SampleEmitted(emitted) /\ handlers = 1 /\ IrqAcquisitions = 0

\* C7: a transport failure of an interrupt-triggered sample read is never
\* thrown, is reported by an 'error' event, and the interrupt is rearmed.
C7_IrqFailureReported ==
  <<"readAccel", "irq">> \in failed
    => /\ <<"getAcceleration", "irq">> \notin thrown
       /\ errorCount > 0
       /\ handlers + IrqAcquisitions = 1

\* C8: 'ready' is emitted at most once and only after a successful identity
\* check and default configuration; when the identity check or a default
\* configuration fails, 'error' is emitted and 'ready' is not.
C8_ReadyOrError ==
  /\ readyCount <= 1
  /\ readyCount = 1 => (whoAmI = ChipId /\ InitFailures = {})
  /\ (Quiescent /\ (whoAmI # ChipId \/ InitFailures # {}))
       => (errorCount > 0 /\ readyCount = 0)

\* the buffer was initialised, then filled by exactly bufferLength samples,
\* all of them [2, 0, 0]
ConstFilled ==
  /\ totalSamples = bufferLength
  /\ \A i \in 1..bufferLength : sampleBuffer[i] = ConstSample

\* C9 (as stated): feeding [2,0,0] bufferLength times to a fresh buffer
\* emits exactly one 'orientation' event, XUP.
C9_OneEmission == ConstFilled => orientLog = <<XUP>>

\* C9 (amended): feeding [2,0,0] bufferLength times to a fresh buffer emits
\* exactly two 'orientation' events, both XUP: the change from Unset and the
\* forced emission of the update that fills the buffer.
C9_TwoEmissions == ConstFilled => orientLog = <<XUP, XUP>>

\* C9 witness: the default buffer of 13 slots filled with [2,0,0].
C9_Witness == ConstFilled /\ bufferLength = DefaultBufferLength

\* C10 (as stated): a sample update whose recomputed turbulence is at or
\* above the suppression threshold emits no 'orientation' event.
C10_NoEventWhenTurbulent ==
  (SampleEmitted(emitted) /\ Turbulent) => OrientationEvents(emitted) = 0

\* C10 (amended): a sample update whose recomputed turbulence is at or above
\* the suppression threshold leaves currentOrientation unchanged and emits no
\* 'orientation' event other than the forced one of the update in which
\* totalSamples reaches bufferLength.
C10_OnlyForcedWhenTurbulent ==
  [][(SampleEmitted(emitted') /\ Turbulent')
       => /\ currentOrientation' = currentOrientation
          /\ OrientationEvents(emitted') =
               (IF totalSamples' = bufferLength' THEN 1 ELSE 0)]_vars

\* C10 witness: a turbulent update in which the classification computed from
\* the buffer differs from currentOrientation, and no event was emitted.
C10_Witness ==
  /\ SampleEmitted(emitted) /\ Turbulent
  /\ currentOrientation # Unset
  /\ Classify(<<averageAcceleration[1].n, averageAcceleration[2].n,
                averageAcceleration[3].n>>) # currentOrientation
  /\ OrientationEvents(emitted) = 0

\* C11: immediately after setSampleBufferLength(n) with n >= 2, whatever was
\* sampled before, every slot of the sample buffer is [0,0,0], bufferIndex is
\* 0, the total-sample counter is 0 and getAverageAcceleration() returns
\* [0,0,0].
C11_ResizeDiscardsHistory ==
  (lastCall.name = "setSampleBufferLength" /\ lastCall.arg >= 2) =>
     /\ \A i \in DOMAIN sampleBuffer : sampleBuffer[i] = Zero3
     /\ bufferIndex = 0
     /\ totalSamples = 0
     /\ \A a \in 1..3 : averageAcceleration[a].n = 0

\* the last step called a setter with an argument the setter rejects
InvalidCall(c) ==
  \/ c.name = "setShakeThreshold" /\ c.arg.n <= 0
  \/ c.name = "setOrientationSuppression" /\ c.arg.n * 10000 <= c.arg.d
  \/ c.name = "setSampleBufferLength" /\ c.arg < 2

\* C12: a setter called with an invalid argument (threshold <= 0, suppression
\* <= 0.0001, length < 2) places nothing on the queue, issues no transport
\* call, leaves shakeThreshold2, orientationSuppression, bufferLength,
\* bufferIndex and sampleBuffer as they were, and reports an error (the
\* 'error' emission it schedules).
C12_InvalidRejected ==
  [][InvalidCall(lastCall') =>
       /\ UNCHANGED <<queue, idle, tasks, bus>>
       /\ UNCHANGED <<shakeThreshold2, orientationSuppression, bufferLength,
                      bufferIndex, sampleBuffer>>
       /\ immq' = Append(immq, "emitErr")]_vars

\* a rejected setSampleBufferLength on a buffer that holds samples
C12_Witness ==
  /\ InvalidCall(lastCall)
  /\ lastCall.name = "setSampleBufferLength"
  /\ totalSamples > 0
  /\ immq # <<>>

\* the supported output rates as a set
RateSet == {availableOutputRates[i] : i \in 1..Len(availableOutputRates)}

\* C13: for a requested rate r in (0, 800] Hz the selected rate is a supported
\* rate: the largest one <= r when r >= 1.56, and 1.56 when r < 1.56; for
\* r = 0 and for negative r the selected rate is 0.
C13_RateSelection ==
  lastCall.name = "_getClosestOutputRate" =>
    LET r == lastCall.arg
        x == lastCall.result
    IN /\ (r > 0 /\ r <= 80000) =>
             /\ x \in RateSet
             /\ r >= 156 => (x <= r /\ \A a \in RateSet : a <= r => a <= x)
             /\ r < 156 => x = 156
       /\ r <= 0 => x = 0

\* 12.49 Hz requested, 6.25 Hz selected
C13_Witness ==
  /\ lastCall.name = "_getClosestOutputRate"
  /\ lastCall.arg = 1249
  /\ lastCall.result = 625

\* C14: on a fault-free transport, setOutputRate(hz) never completes with the
\* invalid-rate error, whatever hz is (hz <= 0 included): with no failed
\* transfer, no rate change completes with an error.
C14_NeverInvalidRate ==
  (failed = {} /\ done.kind = "rate") => ~done.err

\* the 'shake' events among the emissions em
ShakeEvents(em) == {i \in DOMAIN em : em[i][1] = "shake"}

\* C15: for a decoded sample [x,y,z], _detectShake emits exactly one 'shake'
\* event if x^2 + y^2 + z^2 >= shakeThreshold2 (equality triggers) and none
\* if it is smaller; the detector emits nothing else and changes no driver
\* state.
C15_ShakeAtThreshold ==
  [][lastCall'.name = "_detectShake" =>
       LET xyz == lastCall'.arg
           mag2 == xyz[1] * xyz[1] + xyz[2] * xyz[2] + xyz[3] * xyz[3]
           reached == mag2 * shakeThreshold2.d
                        >= shakeThreshold2.n * GUnit * GUnit
       IN /\ Cardinality(ShakeEvents(emitted')) = IF reached THEN 1 ELSE 0
          /\ Len(emitted') = Cardinality(ShakeEvents(emitted'))
          /\ UNCHANGED <<ctrl1, ctrl4, xyzCfg, outputRate, scaleRange,
                         dataInterrupts, shakeThreshold2, bufferLength,
                         bufferIndex, sampleBuffer, orientationSuppression,
                         totalSamples, currentTurbulence, averageAcceleration,
                         currentOrientation, queue, idle, tasks, bus, immq,
                         handlers, listeners>>]_vars

\* a sample of magnitude exactly 2 g under the threshold 2 g: one event
C15_Witness ==
  /\ lastCall.name = "_detectShake"
  /\ lastCall.arg = <<128, 0, 0>>
  /\ shakeThreshold2 = Rat(4, 1)
  /\ emitted = <<<<"shake", 128 * 128>>>>

\* the value of the 12-bit pattern b read as two's complement
TwosComplement12(b) == IF b >= 2048 THEN b - 4096 ELSE b

\* C16: for each axis the decoded value before scaling is the signed 12-bit
\* two's-complement value of the 12-bit pattern whose bits 11-4 are the high
\* byte and whose bits 3-0 are the top nibble of the low byte; it lies in
\* [-2048, 2047], and the bytes {0x80, 0x00} decode to -2048.
C16_TwosComplement ==
  lastCall.name = "gCount" =>
    LET hi == lastCall.arg[1]
        lo == lastCall.arg[2]
        g == lastCall.result
    IN /\ g = TwosComplement12(hi * 16 + (lo \div 16))
       /\ g >= 0 - 2048 /\ g <= 2047
       /\ (hi = 128 /\ lo = 0) => g = 0 - 2048

\* the bytes {0x80, 0x00} decoded
C16_Witness ==
  /\ lastCall.name = "gCount"
  /\ lastCall.arg = <<128, 0>>
  /\ lastCall.result = 0 - 2048

\* C17: under every interleaving of operations, no write to XYZ_DATA_CFG, to
\* the rate bits of CTRL_REG1 or to CTRL_REG4 reaches the device while
\* CTRL_REG1 bit 0 is set (Active mode): in every step in which such a write
\* completes without error, bit 0 was clear; stated for the runs in which no
\* transfer fails.
C17_NoEditWhileActive ==
  [][(/\ bus # <<>>
      /\ tasks[Head(bus)].pc \in EditWrites
      /\ events' = events
      /\ (Head(bus) \notin DOMAIN tasks' \/ tasks'[Head(bus)] # tasks[Head(bus)])
      /\ failed' = {})
       => Bit0(ctrl1) = 0]_vars

\* the two transport calls of _modeStandby
StandbyCalls == {"standbyRead", "standbyWrite"}

\* C18: when the CTRL_REG1 read or write of the Standby transition of
\* _changeRegister fails, that operation makes no further transport call (the
\* edit function is not run, no Active restoration is attempted), no register
\* and no setting changes, and its completion callback has run exactly once,
\* with the error.
C18_StandbyFailureEnds ==
  [][(/\ bus # <<>>
      /\ tasks[Head(bus)].pc \in StandbyCalls
      /\ events' = events + 1
      /\ (Head(bus) \notin DOMAIN tasks' \/ tasks'[Head(bus)] # tasks[Head(bus)]))
       => /\ Head(bus) \notin DOMAIN tasks'
          /\ Head(bus) \notin {bus'[i] : i \in DOMAIN bus'}
          /\ UNCHANGED <<ctrl1, ctrl4, xyzCfg, outputRate, scaleRange>>
          /\ done'.seq = Head(bus)
          /\ done'.stage = "standby"
          /\ done'.err
          /\ done'.count = 1]_vars

\* the Standby write of a scale change has failed and the change is over
C18_Witness ==
  /\ \E f \in failed : f[1] = "standbyWrite"
  /\ done.stage = "standby" /\ done.kind = "scale" /\ done.err
  /\ done.count = 1
  /\ lastEffectSeq = done.seq
  /\ done.seq \notin DOMAIN tasks

\* C19: whenever an enableDataInterrupts operation that changed the register
\* completes, with or without an error, the dataInterruptsEnabled flag
\* equals bit 0 of CTRL_REG4.
C19_FlagMirrorsBit == done.kind = "enable" => done.mirror

\* C20: in every reachable state, whatever rates setOutputRate was called
\* with (0 and negative rates included), the stored outputRate is one of
\* 800, 400, 200, 100, 50, 12.5, 6.25, 1.56 Hz.
C20_RateSupported == outputRate \in RateSet

\* C21: in every reachable state, whatever ranges setScaleRange was called
\* with and whether or not transfers failed, the stored scaleRange, by which
\* samples are converted, is one of 2, 4, 8.
C21_ScaleSupported == scaleRange \in {2, 4, 8}

\* bits 3-5 of a CTRL_REG1 value
RateBits(c) == (c \div 8) % 8

\* C22: in the step in which a setOutputRate(hz) with hz > 0 completes
\* without error, bits 3-5 of CTRL_REG1 hold the index of the selected rate
\* in the descending list of supported rates, bit 0 is set, and bits 1, 2, 6
\* and 7 are as they were when the operation began; stated for the runs in
\* which no transfer fails.
C22_RateRegister ==
  [][(/\ bus # <<>>
      /\ tasks[Head(bus)].pc = "activeWrite"
      /\ tasks[Head(bus)].op.kind = "rate"
      /\ tasks[Head(bus)].op.arg > 0
      /\ failed' = {}
      /\ done'.seq = Head(bus) /\ done'.kind = "rate"
      /\ done'.stage = "active" /\ ~done'.err)
       => LET op == tasks[Head(bus)].op
          IN /\ RateBits(ctrl1')
                  = IndexOf(availableOutputRates, GetClosestOutputRate(op.arg))
             /\ Bit0(ctrl1') = 1
             /\ OtherBits(ctrl1') = op.before]_vars

\* C23: every 'orientation' event, a change emission or the forced first
\* emission, carries one of the six orientations XUP..ZDOWN (never the unset
\* value -1) and, as its name argument, the name of that same orientation.
C23_ValidOrientation ==
  \A i \in DOMAIN emitted :
    emitted[i][1] = "orientation" =>
       /\ emitted[i][2] \in XUP..ZDOWN
       /\ emitted[i][3] = orientationName(emitted[i][2])
====
